---- MODULE Spec2Model ----
(***************************************************************************)
(* Forge & Bolt e-commerce backend: cart, order ledger and Paystack        *)
(* webhook reconciliation (src/src/controllers/*.js), modelled over the    *)
(* tables the handlers read and write through the Supabase client.         *)
(*                                                                         *)
(* Tables                                                                  *)
(*   products            id -> [price, stock_count]                        *)
(*   carts               rows [id, user_id, grand_total]                   *)
(*   cart_items          rows [id, cart_id, product_id, quantity]          *)
(*   cart_totals         user_id -> grand_total (a table of its own, read  *)
(*                       by getCart and reset by the webhook)              *)
(*   orders              id -> [user_id, total_amount, status]             *)
(*   order_items         rows [order_id, product_id, quantity,             *)
(*                       price_at_order]                                   *)
(*   payment_references  rows [user_id, order_id, event]                   *)
(***************************************************************************)
EXTENDS Integers, Sequences, FiniteSets, TLC

(***************************************************************************)
(* Bounds of the model.                                                    *)
(***************************************************************************)
MaxProducts == 2   \* product ids 1..MaxProducts
MaxItems    == 2   \* cart_items ids ever allocated
MaxOrders   == 1   \* orders ever created
MaxRefs     == 2   \* payment_references rows ever inserted
MaxQty      == 2   \* largest quantity a request carries
MaxAdminOps == 1   \* writes by an admin (catalog, order status)
MaxWrites   == 2   \* cart_items inserts plus admin writes in one run

(***************************************************************************)
(* Users (table users): id, email, role.                                   *)
(***************************************************************************)
Users == {"u1", "u2"}

Role(u) == IF u = "u2" THEN "admin" ELSE "customer"

EmailOf(u) == IF u = "u1" THEN "u1@mail" ELSE "u2@mail"

UnknownEmail == "nobody@mail"

NoEmail == ""

ProductIds == 1..MaxProducts

\* quantities a request body can carry; 0 stands for every falsy value
\* (0, missing, null), which `!quantity` rejects
QtyVals == (-1)..MaxQty

\* {price, stock_count} pairs an admin request body can carry (not validated)
ProductVals == {[price |-> 5, stock_count |-> 1], [price |-> 10, stock_count |-> -1]}

Statuses == {"pending", "paid", "failed"}

\* status strings an admin request body can carry ("" is falsy)
StatusVals == {"", "paid", "shipped"}

VARIABLES
    products,            \* [existing product ids -> [price, stock_count]]
    nextProductId,
    carts,               \* set of [id, user_id, grand_total]
    cart_items,          \* set of [id, cart_id, product_id, quantity]
    nextItemId,
    cart_totals,         \* [users having a row -> grand_total]
    orders,              \* sequence of [user_id, total_amount, status]; index = id
    order_items,         \* sequence of [order_id, product_id, quantity, price_at_order]
    payment_references,  \* sequence of [user_id, order_id, event]
    emails,              \* sequence of [to, kind]: calls of transporter.sendMail
    adminOps,            \* catalog writes done so far
    resp,                \* the response of the request handled last
    lastEvent,           \* the charge.success event answered 200 by the last request
    webhooks,            \* the paystackWebhook invocations in flight (SpecConc)
    calls                \* the cart, order and catalog requests in flight (SpecRace)

vars == <<products, nextProductId, carts, cart_items, nextItemId, cart_totals,
          orders, order_items, payment_references, emails, adminOps,
          resp, lastEvent, webhooks, calls>>

(***************************************************************************)
(* Helpers                                                                 *)
(***************************************************************************)
RECURSIVE SumSet(_, _)
\* items.reduce((sum, item) => sum + item.quantity * item.products.price, 0)
SumSet(items, prods) ==
    IF items = {} THEN 0
    ELSE LET it == CHOOSE x \in items : TRUE
         IN  it.quantity * prods[it.product_id].price + SumSet(items \ {it}, prods)

\* The response of a handler, with what the model keeps of the request it
\* answers: sig is the class of the x-paystack-signature header a webhook
\* request carried, prev the status the order the webhook named had before.
ResponseTo(op, status, msg, total, prev, sig) ==
    [op |-> op, status |-> status, msg |-> msg, grand_total |-> total, prev |-> prev,
     sig |-> sig]

Response(op, status, msg, total, prev) == ResponseTo(op, status, msg, total, prev, "")

(***************************************************************************)
(* Webhook requests.  The body is the raw payload; the signature header is *)
(* absent (<<>>) or an HMAC-SHA-512 digest, modelled as the pair of the    *)
(* key and the payload it was computed over, so two digests are equal      *)
(* exactly when key and payload are.                                       *)
(***************************************************************************)
SecretKey == "PAYSTACK_SECRET_KEY"

Hmac(key, body) == <<key, body>>

NoSignature == <<>>

Events == {"charge.success", "charge.failed", "charge.other"}

\* order_id 0 and email "" stand for a missing field
JsonBodies == [json : {TRUE}, event : Events, data : {TRUE},
               email : {EmailOf("u1"), UnknownEmail, NoEmail},
               order_id : 0..MaxOrders]

NoDataBody == [json |-> TRUE, event |-> "charge.success", data |-> FALSE,
               email |-> NoEmail, order_id |-> 0]

GarbageBody == [json |-> FALSE, event |-> "", data |-> FALSE,
                email |-> NoEmail, order_id |-> 0]

WebhookBodies == JsonBodies \cup {NoDataBody, GarbageBody}

SignaturesFor(body) == {NoSignature, Hmac(SecretKey, body), Hmac("other key", body)}

WebhookRequests == UNION {{[body |-> b, signature |-> s] : s \in SignaturesFor(b)} :
                          b \in WebhookBodies}

NoEvent == [body |-> GarbageBody, signature |-> NoSignature]

\* the header a request carries, compared with the digest of its own payload
SignatureClass(req) ==
    IF req.signature = NoSignature THEN "absent"
    ELSE IF req.signature = Hmac(SecretKey, req.body) THEN "matching"
    ELSE "mismatch"

CartRowsOf(cs, u) == {c \in cs : c.user_id = u}

\* the id the datastore gives a new carts row: the first one unused
NewCartId(cs) == CHOOSE n \in 1..(Cardinality(cs) + 1) :
                     /\ \A c \in cs : c.id # n
                     /\ \A m \in 1..(n - 1) : \E c \in cs : c.id = m

\* column default of carts.grand_total (register inserts it explicitly)
DefaultGrandTotal == 0

\* a get-or-create that overwrites the row it finds with a fresh one, as an
\* upsert would (not what the code does)
GetOrCreateCartReset(cs, u) ==
    LET rows == CartRowsOf(cs, u) IN
    IF rows = {}
    THEN [ok |-> TRUE,
          carts |-> cs \cup {[id |-> NewCartId(cs), user_id |-> u,
                              grand_total |-> DefaultGrandTotal]},
          id |-> NewCartId(cs)]
    ELSE [ok |-> TRUE,
          carts |-> {IF c.user_id = u THEN [c EXCEPT !.grand_total = DefaultGrandTotal]
                     ELSE c : c \in cs},
          id |-> (CHOOSE c \in rows : TRUE).id]

\* getOrCreateCart: select ... maybeSingle(); insert when there is no row.
\* maybeSingle() reports an error when several rows match, and the helper throws.
GetOrCreateCart(cs, u) ==
    LET rows == CartRowsOf(cs, u) IN
    IF Cardinality(rows) > 1 THEN [ok |-> FALSE, carts |-> cs, id |-> 0]
    ELSE IF rows # {} THEN [ok |-> TRUE, carts |-> cs, id |-> (CHOOSE c \in rows : TRUE).id]
    ELSE [ok |-> TRUE,
          carts |-> cs \cup {[id |-> NewCartId(cs), user_id |-> u,
                              grand_total |-> DefaultGrandTotal]},
          id |-> NewCartId(cs)]

\* bounds on the explored behaviours: cart item inserts and admin writes
MayInsertItem == nextItemId <= MaxItems /\ (nextItemId - 1) + adminOps < MaxWrites

MayAdminWrite == adminOps < MaxAdminOps /\ (nextItemId - 1) + adminOps < MaxWrites

\* a stock check that lets one unit too many through (not what the code does)
ExceedsStockOffByOne(quantity, stock_count) == quantity > stock_count + 1

\* if (quantity > product.stock_count) return res.status(400)
ExceedsStock(quantity, stock_count) == quantity > stock_count

\* a select without the cart_id filter (not what the code does)
AllCartItems(items, cid) == items

\* cart_items.select(...).eq('cart_id', cart.id)
ItemsOfCart(items, cid) == {it \in items : it.cart_id = cid}

SetGrandTotal(cs, cid, total) ==
    {IF c.id = cid THEN [c EXCEPT !.grand_total = total] ELSE c : c \in cs}

\* a recomputation that returns the sum without storing it (not what the code does)
UpdateGrandTotalNotPersisted(cs, items, prods, u) ==
    LET g == GetOrCreateCart(cs, u) IN
    IF ~g.ok THEN [carts |-> cs, total |-> 0]
    ELSE [carts |-> g.carts, total |-> SumSet(ItemsOfCart(items, g.id), prods)]

\* updateGrandTotal: recompute the sum over the cart's items and persist it in
\* carts.grand_total; any failure is swallowed and 0 is returned.
UpdateGrandTotal(cs, items, prods, u) ==
    LET g == GetOrCreateCart(cs, u) IN
    IF ~g.ok THEN [carts |-> cs, total |-> 0]
    ELSE IF \E it \in ItemsOfCart(items, g.id) : it.product_id \notin DOMAIN prods
    THEN [carts |-> g.carts, total |-> 0]
    ELSE LET total == SumSet(ItemsOfCart(items, g.id), prods)
         IN  [carts |-> SetGrandTotal(g.carts, g.id, total), total |-> total]

(***************************************************************************)
(* Invocations of paystackWebhook that run concurrently: the handler is    *)
(* async and yields at every await, so the datastore calls of two          *)
(* invocations interleave.  pc is the await the invocation is suspended    *)
(* at; user_id, seen, cart_id and items are its locals (userData.id,       *)
(* orderCheck.status, userCart.id, orderItems).                            *)
(***************************************************************************)
Deliveries == {1, 2}

IdleWebhook == [pc |-> "idle", req |-> NoEvent, user_id |-> "", seen |-> "",
                cart_id |-> 0, items |-> <<>>]

(***************************************************************************)
(* Requests of the cart, order and catalog handlers that run concurrently. *)
(* pc is the await the request is suspended at; u is req.user.id, and      *)
(* cart_id, product_id, quantity, lines and order_id are the handler's     *)
(* locals (cart.id, productId, quantity, cartItems, order.id).             *)
(***************************************************************************)
CallIds == {1, 2}

IdleCall == [op |-> "", pc |-> "idle", u |-> "", cart_id |-> 0, product_id |-> 0,
             quantity |-> 0, lines |-> <<>>, order_id |-> 0]

(***************************************************************************)
(* Initial state: one product in the catalog and no orders.  u1 came in    *)
(* through register, which inserts the user's cart (unnamed/part_002:48),  *)
(* and has a cart_totals row written by the monolith's updateGrandTotal    *)
(* (src/server.js:737-739); u2 has neither yet.                            *)
(***************************************************************************)
LegacyTotal == 7

Init ==
    /\ products = (1 :> [price |-> 10, stock_count |-> 1])
    /\ nextProductId = 2
    /\ carts = {[id |-> 1, user_id |-> "u1", grand_total |-> 0]}
    /\ cart_items = {}
    /\ nextItemId = 1
    /\ cart_totals = ("u1" :> LegacyTotal)
    /\ orders = <<>>
    /\ order_items = <<>>
    /\ payment_references = <<>>
    /\ emails = <<>>
    /\ adminOps = 0
    /\ resp = Response("none", 0, "", 0, "")
    /\ lastEvent = NoEvent
    /\ webhooks = [i \in Deliveries |-> IdleWebhook]
    /\ calls = [c \in CallIds |-> IdleCall]

(***************************************************************************)
(* Cart Manager (cartController.js)                                        *)
(***************************************************************************)
AddToCart(u, productId, quantity) ==
    LET g == GetOrCreateCart(carts, u) IN
    /\ lastEvent' = NoEvent
    /\ UNCHANGED <<webhooks, calls>>
    /\ UNCHANGED <<products, nextProductId, cart_totals, orders, order_items,
                   payment_references, emails, adminOps>>
    /\ IF productId = 0 \/ quantity = 0
       THEN /\ resp' = Response("addToCart", 400, "Product ID and quantity are required", 0, "")
            /\ UNCHANGED <<carts, cart_items, nextItemId>>
       ELSE IF ~g.ok
       THEN /\ resp' = Response("addToCart", 500, "error", 0, "")
            /\ UNCHANGED <<carts, cart_items, nextItemId>>
       ELSE IF productId \notin DOMAIN products
       THEN /\ resp' = Response("addToCart", 404, "Product not found", 0, "")
            /\ carts' = g.carts
            /\ UNCHANGED <<cart_items, nextItemId>>
       ELSE IF ExceedsStock(quantity, products[productId].stock_count)
       THEN /\ resp' = Response("addToCart", 400, "Only N items in stock", 0, "")
            /\ carts' = g.carts
            /\ UNCHANGED <<cart_items, nextItemId>>
       ELSE /\ MayInsertItem
            /\ LET item  == [id |-> nextItemId, cart_id |-> g.id,
                             product_id |-> productId, quantity |-> quantity]
                   items == cart_items \cup {item}
                   t     == UpdateGrandTotal(g.carts, items, products, u)
               IN  /\ cart_items' = items
                   /\ nextItemId' = nextItemId + 1
                   /\ carts' = t.carts
                   /\ resp' = Response("addToCart", 201, "", t.total, "")

\* a lookup by item id alone (not what the code does)
FindCartItemAnyCart(items, id, cart_id) == {it \in items : it.id = id}

\* cart_items ... .eq('id', id).eq('cart_id', cart.id)
FindCartItem(items, id, cart_id) == {it \in items : it.id = id /\ it.cart_id = cart_id}

UpdateCartItem(u, id, quantity) ==
    LET g == GetOrCreateCart(carts, u) IN
    /\ lastEvent' = NoEvent
    /\ UNCHANGED <<webhooks, calls>>
    /\ UNCHANGED <<products, nextProductId, nextItemId, cart_totals, orders, order_items,
                   payment_references, emails, adminOps>>
    /\ IF quantity = 0
       THEN /\ resp' = Response("updateCartItem", 400, "Quantity is required", 0, "")
            /\ UNCHANGED <<carts, cart_items>>
       ELSE IF ~g.ok
       THEN /\ resp' = Response("updateCartItem", 500, "error", 0, "")
            /\ UNCHANGED <<carts, cart_items>>
       ELSE LET found == FindCartItem(cart_items, id, g.id) IN
            IF found = {}
            THEN /\ resp' = Response("updateCartItem", 404, "Cart item not found", 0, "")
                 /\ carts' = g.carts
                 /\ UNCHANGED cart_items
            ELSE LET existingItem == CHOOSE it \in found : TRUE IN
                 IF ExceedsStock(quantity, products[existingItem.product_id].stock_count)
                 THEN /\ resp' = Response("updateCartItem", 400, "Only N items in stock", 0, "")
                      /\ carts' = g.carts
                      /\ UNCHANGED cart_items
                 ELSE LET items == (cart_items \ found)
                                     \cup {[existingItem EXCEPT !.quantity = quantity]}
                          t     == UpdateGrandTotal(g.carts, items, products, u)
                      IN  /\ cart_items' = items
                          /\ carts' = t.carts
                          /\ resp' = Response("updateCartItem", 200, "", t.total, "")

DeleteCartItem(u, id) ==
    LET g == GetOrCreateCart(carts, u) IN
    /\ lastEvent' = NoEvent
    /\ UNCHANGED <<webhooks, calls>>
    /\ UNCHANGED <<products, nextProductId, nextItemId, cart_totals, orders, order_items,
                   payment_references, emails, adminOps>>
    /\ IF ~g.ok
       THEN /\ resp' = Response("deleteCartItem", 500, "error", 0, "")
            /\ UNCHANGED <<carts, cart_items>>
       ELSE LET found == FindCartItem(cart_items, id, g.id) IN
            IF found = {}
            THEN /\ resp' = Response("deleteCartItem", 404, "Cart item not found", 0, "")
                 /\ carts' = g.carts
                 /\ UNCHANGED cart_items
            ELSE LET items == cart_items \ found
                     t     == UpdateGrandTotal(g.carts, items, products, u)
                 IN  /\ cart_items' = items
                     /\ carts' = t.carts
                     /\ resp' = Response("deleteCartItem", 200,
                                         "Cart item deleted successfully", t.total, "")

(***************************************************************************)
(* Order Ledger (orderController.js)                                       *)
(***************************************************************************)
\* order items for the first cart line only (not what the code does)
OrderItemsDataFirstLine(items, prods, order_id) ==
    IF items = {} THEN <<>>
    ELSE LET it == CHOOSE x \in items : \A y \in items : x.id <= y.id
         IN  <<[order_id |-> order_id, product_id |-> it.product_id,
                quantity |-> it.quantity,
                price_at_order |-> prods[it.product_id].price]>>

RECURSIVE OrderItemsData(_, _, _)
\* cartItems.map(item => ({order_id, product_id, quantity, price_at_order})),
\* in the order of the cart_items ids
OrderItemsData(items, prods, order_id) ==
    IF items = {} THEN <<>>
    ELSE LET it == CHOOSE x \in items : \A y \in items : x.id <= y.id
         IN  <<[order_id |-> order_id, product_id |-> it.product_id,
                quantity |-> it.quantity,
                price_at_order |-> prods[it.product_id].price]>>
             \o OrderItemsData(items \ {it}, prods, order_id)

RECURSIVE SumOrderLines(_)
\* cartItems.reduce((sum, item) => sum + item.quantity * item.products.price, 0)
\* over the lines createOrder has read
SumOrderLines(lines) ==
    IF lines = <<>> THEN 0
    ELSE Head(lines).quantity * Head(lines).price_at_order + SumOrderLines(Tail(lines))

CreateOrder(u) ==
    LET g == GetOrCreateCart(carts, u)
        cartItems == ItemsOfCart(cart_items, g.id)
    IN
    /\ lastEvent' = NoEvent
    /\ UNCHANGED <<webhooks, calls>>
    /\ UNCHANGED <<products, nextProductId, cart_items, nextItemId, cart_totals,
                   payment_references, emails, adminOps>>
    /\ IF ~g.ok
       THEN /\ resp' = Response("createOrder", 500, "error", 0, "")
            /\ UNCHANGED <<carts, orders, order_items>>
       ELSE IF cartItems = {}
       THEN /\ resp' = Response("createOrder", 400, "Cart is empty", 0, "")
            /\ carts' = g.carts
            /\ UNCHANGED <<orders, order_items>>
       ELSE IF \E it \in cartItems : it.product_id \notin DOMAIN products
       THEN /\ resp' = Response("createOrder", 500, "error", 0, "")
            /\ carts' = g.carts
            /\ UNCHANGED <<orders, order_items>>
       ELSE /\ Len(orders) < MaxOrders
            /\ LET totalAmount == SumSet(cartItems, products)
                   order_id    == Len(orders) + 1
               IN  /\ orders' = Append(orders, [user_id |-> u, total_amount |-> totalAmount,
                                                status |-> "pending"])
                   /\ order_items' = order_items
                                       \o OrderItemsData(cartItems, products, order_id)
                   /\ carts' = g.carts
                   /\ resp' = Response("createOrder", 201, "pending", totalAmount, "")

UpdateOrderStatus(u, id, status) ==
    /\ lastEvent' = NoEvent
    /\ UNCHANGED <<webhooks, calls>>
    /\ UNCHANGED <<products, nextProductId, carts, cart_items, nextItemId, cart_totals,
                   order_items, payment_references, emails>>
    /\ IF status = ""
       THEN /\ resp' = Response("updateOrderStatus", 400, "Status is required", 0, "")
            /\ UNCHANGED <<orders, adminOps>>
       ELSE IF Role(u) # "admin"
       THEN /\ resp' = Response("updateOrderStatus", 403,
                                "Only admins can update order status", 0, "")
            /\ UNCHANGED <<orders, adminOps>>
       ELSE IF id \notin DOMAIN orders
       THEN /\ resp' = Response("updateOrderStatus", 404, "Order not found", 0, "")
            /\ UNCHANGED <<orders, adminOps>>
       ELSE /\ MayAdminWrite
            /\ orders' = [orders EXCEPT ![id].status = status]
            /\ adminOps' = adminOps + 1
            /\ resp' = Response("updateOrderStatus", 200, status, 0, "")

(***************************************************************************)
(* Catalog Store (productController.js)                                    *)
(***************************************************************************)
CreateProduct(u, price, stock_count) ==
    /\ lastEvent' = NoEvent
    /\ UNCHANGED <<webhooks, calls>>
    /\ UNCHANGED <<carts, cart_items, nextItemId, cart_totals, orders, order_items,
                   payment_references, emails>>
    /\ IF Role(u) # "admin"
       THEN /\ resp' = Response("createProduct", 403, "Only admins can add products", 0, "")
            /\ UNCHANGED <<products, nextProductId, adminOps>>
       ELSE /\ nextProductId <= MaxProducts
            /\ MayAdminWrite
            /\ products' = (nextProductId :> [price |-> price, stock_count |-> stock_count])
                             @@ products
            /\ nextProductId' = nextProductId + 1
            /\ adminOps' = adminOps + 1
            /\ resp' = Response("createProduct", 201, "", 0, "")

UpdateProduct(u, id, price, stock_count) ==
    /\ lastEvent' = NoEvent
    /\ UNCHANGED <<webhooks, calls>>
    /\ UNCHANGED <<nextProductId, carts, cart_items, nextItemId, cart_totals, orders,
                   order_items, payment_references, emails>>
    /\ IF Role(u) # "admin"
       THEN /\ resp' = Response("updateProduct", 403, "Only admins can update products", 0, "")
            /\ UNCHANGED <<products, adminOps>>
       ELSE IF id \notin DOMAIN products
       THEN /\ resp' = Response("updateProduct", 404, "Product not found", 0, "")
            /\ UNCHANGED <<products, adminOps>>
       ELSE /\ MayAdminWrite
            /\ products' = [products EXCEPT ![id] = [price |-> price,
                                                     stock_count |-> stock_count]]
            /\ adminOps' = adminOps + 1
            /\ resp' = Response("updateProduct", 200, "", 0, "")

RemoveKey(f, k) == [x \in DOMAIN f \ {k} |-> f[x]]

DeleteProduct(u, id) ==
    /\ lastEvent' = NoEvent
    /\ UNCHANGED <<webhooks, calls>>
    /\ UNCHANGED <<nextProductId, carts, nextItemId, cart_totals, orders,
                   payment_references, emails>>
    /\ IF Role(u) # "admin"
       THEN /\ resp' = Response("deleteProduct", 403, "Only admins can delete products", 0, "")
            /\ UNCHANGED <<products, cart_items, order_items, adminOps>>
       ELSE /\ cart_items' = {it \in cart_items : it.product_id # id}
            /\ order_items' = SelectSeq(order_items, LAMBDA oi : oi.product_id # id)
            /\ IF id \notin DOMAIN products
               THEN /\ resp' = Response("deleteProduct", 404, "Product not found", 0, "")
                    /\ UNCHANGED <<products, adminOps>>
               ELSE /\ MayAdminWrite
                    /\ products' = RemoveKey(products, id)
                    /\ adminOps' = adminOps + 1
                    /\ resp' = Response("deleteProduct", 200,
                                        "Product deleted successfully", 0, "")

(***************************************************************************)
(* Payment Reconciler (orderController.js, paystackWebhook)                *)
(***************************************************************************)
\* users.select('id, email').eq('email', email).single()
UsersByEmail(email) == {u \in Users : EmailOf(u) = email}

\* a lookup by order id alone (not what the code does)
OrderExists(os, order_id, user_id) == order_id \in DOMAIN os

\* orders.select('*').eq('id', Number(order_id)).eq('user_id', user_id).single()
OrderCheck(os, order_id, user_id) ==
    order_id \in DOMAIN os /\ os[order_id].user_id = user_id

\* an update that writes a whole fresh row (not what the code does)
ReplaceOrder(os, order_id, user_id, status) ==
    IF OrderCheck(os, order_id, user_id)
    THEN [os EXCEPT ![order_id] = [user_id |-> user_id, total_amount |-> 0,
                                   status |-> status]]
    ELSE os

\* orders.update({status}).eq('id', order_id).eq('user_id', user_id)
SetOrderStatus(os, order_id, user_id, status) ==
    IF OrderCheck(os, order_id, user_id)
    THEN [os EXCEPT ![order_id].status = status]
    ELSE os

\* carts.select('id').eq('user_id', user_id).single(), then
\* cart_items.delete().eq('cart_id', userCart.id) when a cart was found
ClearCartItems(items, cs, user_id) ==
    LET rows == CartRowsOf(cs, user_id) IN
    IF Cardinality(rows) = 1
    THEN {it \in items : it.cart_id # (CHOOSE c \in rows : TRUE).id}
    ELSE items

\* cart_totals.update({grand_total: 0}).eq('user_id', user_id)
ResetCartTotals(ct, user_id) ==
    [u \in DOMAIN ct |-> IF u = user_id THEN 0 ELSE ct[u]]

\* no audit row is written (not what the code does)
NoPaymentReference(refs, user_id, order_id, event) == refs

\* payment_references.insert({user_id, order_id, ...})
InsertPaymentReference(refs, user_id, order_id, event) ==
    Append(refs, [user_id |-> user_id, order_id |-> order_id, event |-> event])

\* order_items.select('product_id, quantity').eq('order_id', order_id)
OrderItemsOf(ois, order_id) == SelectSeq(ois, LAMBDA oi : oi.order_id = order_id)

\* products.update({stock_count: supabase.rpc('decrement', {x: quantity})})
\*         .eq('id', product_id)
\* The value handed to update() is the query builder rpc() returns, not a
\* number.  What the datastore makes of it lies outside the repository: it
\* either rejects the write (the result is not inspected, the row keeps its
\* stock_count) or applies the decrement the statement spells out.
DecrementOne(prods, product_id, quantity, applies) ==
    IF applies /\ product_id \in DOMAIN prods
    THEN [prods EXCEPT ![product_id].stock_count = @ - quantity]
    ELSE prods

RECURSIVE DecrementStock(_, _, _)
\* for (const item of orderItems || []) { ... }
DecrementStock(prods, orderItems, applies) ==
    IF orderItems = <<>> THEN prods
    ELSE DecrementStock(DecrementOne(prods, Head(orderItems).product_id,
                                     Head(orderItems).quantity, applies),
                        Tail(orderItems), applies)

SendMail(ms, to, kind) == Append(ms, [to |-> to, kind |-> kind])

WebhookReject(req, status, msg) ==
    /\ resp' = ResponseTo("paystackWebhook", status, msg, 0, "", SignatureClass(req))
    /\ lastEvent' = NoEvent
    /\ UNCHANGED <<products, cart_items, cart_totals, orders, payment_references, emails>>

ChargeSuccess(req, user_id) ==
    LET body == req.body
        order_id == body.order_id
    IN
    IF ~OrderCheck(orders, order_id, user_id)
    THEN WebhookReject(req, 404, "Order not found")
    ELSE /\ Len(payment_references) < MaxRefs
         /\ orders' = SetOrderStatus(orders, order_id, user_id, "paid")
         /\ cart_items' = ClearCartItems(cart_items, carts, user_id)
         /\ cart_totals' = ResetCartTotals(cart_totals, user_id)
         /\ payment_references' =
                InsertPaymentReference(payment_references, user_id, order_id, body.event)
         /\ \E applies \in BOOLEAN :
                products' = DecrementStock(products, OrderItemsOf(order_items, order_id),
                                           applies)
         /\ resp' = ResponseTo("paystackWebhook", 200, "OK", 0, orders[order_id].status,
                               SignatureClass(req))
         /\ emails' = SendMail(emails, body.email, "success")
         /\ lastEvent' = req

ChargeFailed(req, user_id) ==
    LET body == req.body
        order_id == body.order_id
    IN
    /\ Len(payment_references) < MaxRefs
    /\ orders' = SetOrderStatus(orders, order_id, user_id, "failed")
    /\ payment_references' =
           InsertPaymentReference(payment_references, user_id, order_id, body.event)
    /\ resp' = ResponseTo("paystackWebhook", 200, "OK", 0,
                          IF OrderCheck(orders, order_id, user_id)
                          THEN orders[order_id].status ELSE "",
                          SignatureClass(req))
    /\ emails' = SendMail(emails, body.email, "failed")
    /\ lastEvent' = NoEvent
    /\ UNCHANGED <<products, cart_items, cart_totals>>

\* a check that accepts any signature header (not what the code does)
SignaturePresent(req) == req.signature # NoSignature

\* hash === signature, hash the HMAC-SHA-512 of req.body under the secret key
SignatureValid(req) == req.signature = Hmac(SecretKey, req.body)

PaystackWebhook(req) ==
    LET body == req.body IN
    /\ UNCHANGED <<nextProductId, carts, nextItemId, order_items, adminOps, webhooks,
                   calls>>
    /\ IF req.signature = NoSignature
       THEN WebhookReject(req, 400, "Missing signature")
       ELSE IF ~SignatureValid(req)
       THEN WebhookReject(req, 401, "Invalid signature")
       ELSE IF ~body.json
       THEN WebhookReject(req, 400, "Invalid JSON")
       ELSE IF ~body.data
       THEN WebhookReject(req, 400, "No data in webhook")
       ELSE IF body.order_id = 0 \/ body.email = NoEmail
       THEN WebhookReject(req, 400, "Missing order_id or email")
       ELSE IF UsersByEmail(body.email) = {}
       THEN WebhookReject(req, 200, "User not found")
       ELSE LET user_id == CHOOSE u \in UsersByEmail(body.email) : TRUE IN
            IF body.event = "charge.success" THEN ChargeSuccess(req, user_id)
            ELSE IF body.event = "charge.failed" THEN ChargeFailed(req, user_id)
            ELSE WebhookReject(req, 200, "OK")

\* every request is handled to completion before the next one arrives
Next ==
    \/ \E u \in Users, p \in 0..MaxProducts, q \in QtyVals : AddToCart(u, p, q)
    \/ \E u \in Users, i \in 1..MaxItems, q \in QtyVals : UpdateCartItem(u, i, q)
    \/ \E u \in Users, i \in 1..MaxItems : DeleteCartItem(u, i)
    \/ \E u \in Users : CreateOrder(u)
    \/ \E u \in Users, i \in 1..MaxOrders, st \in StatusVals : UpdateOrderStatus(u, i, st)
    \/ \E u \in Users, v \in ProductVals : CreateProduct(u, v.price, v.stock_count)
    \/ \E u \in Users, p \in ProductIds, v \in ProductVals :
          UpdateProduct(u, p, v.price, v.stock_count)
    \/ \E u \in Users, p \in ProductIds : DeleteProduct(u, p)
    \/ \E req \in WebhookRequests : PaystackWebhook(req)

Spec == Init /\ [][Next]_vars

(***************************************************************************)
(* Concurrent deliveries: paystackWebhook one await at a time.             *)
(***************************************************************************)
SetWebhook(i, w) == webhooks' = [webhooks EXCEPT ![i] = w] /\ UNCHANGED calls

\* the handler answers and returns
Answer(i, status, msg) ==
    /\ resp' = ResponseTo("paystackWebhook", status, msg, 0, webhooks[i].seen,
                          SignatureClass(webhooks[i].req))
    /\ lastEvent' = NoEvent

\* a validly signed, well-formed event for a known customer
SignedEvents == {[body |-> b, signature |-> Hmac(SecretKey, b)] :
                   b \in {x \in JsonBodies : x.email = EmailOf("u1") /\ x.order_id # 0}}

\* lines 172-201: the checks before the first await, and the users lookup
Receive(i, req) ==
    /\ webhooks[i].pc = "idle"
    /\ SignatureValid(req) /\ req.body.json /\ req.body.data
    /\ req.body.order_id # 0 /\ req.body.email # NoEmail
    /\ UsersByEmail(req.body.email) # {}
    /\ SetWebhook(i, [webhooks[i] EXCEPT
                        !.pc = IF req.body.event = "charge.success" THEN "orderCheck"
                               ELSE IF req.body.event = "charge.failed" THEN "markFailed"
                               ELSE "respond",
                        !.req = req,
                        !.user_id = CHOOSE u \in UsersByEmail(req.body.email) : TRUE])
    /\ UNCHANGED <<products, nextProductId, carts, cart_items, nextItemId, cart_totals,
                   orders, order_items, payment_references, emails, adminOps, resp,
                   lastEvent>>

\* lines 207-215
SelectOrder(i) ==
    LET w == webhooks[i] IN
    /\ w.pc = "orderCheck"
    /\ IF OrderCheck(orders, w.req.body.order_id, w.user_id)
       THEN /\ SetWebhook(i, [w EXCEPT !.pc = "markPaid",
                                       !.seen = orders[w.req.body.order_id].status])
            /\ UNCHANGED <<resp, lastEvent>>
       ELSE /\ SetWebhook(i, [w EXCEPT !.pc = "done"])
            /\ Answer(i, 404, "Order not found")
    /\ UNCHANGED <<products, nextProductId, carts, cart_items, nextItemId, cart_totals,
                   orders, order_items, payment_references, emails, adminOps>>

\* lines 216-225
MarkPaid(i) ==
    LET w == webhooks[i] IN
    /\ w.pc = "markPaid"
    /\ orders' = SetOrderStatus(orders, w.req.body.order_id, w.user_id, "paid")
    /\ IF OrderCheck(orders, w.req.body.order_id, w.user_id)
       THEN /\ SetWebhook(i, [w EXCEPT !.pc = "selectCart"])
            /\ UNCHANGED <<resp, lastEvent>>
       ELSE /\ SetWebhook(i, [w EXCEPT !.pc = "done"])
            /\ Answer(i, 400, "Order update failed")
    /\ UNCHANGED <<products, nextProductId, carts, cart_items, nextItemId, cart_totals,
                   order_items, payment_references, emails, adminOps>>

\* lines 226-231
SelectCart(i) ==
    LET w == webhooks[i]
        rows == CartRowsOf(carts, w.user_id)
    IN
    /\ w.pc = "selectCart"
    /\ SetWebhook(i, IF Cardinality(rows) = 1
                     THEN [w EXCEPT !.pc = "clearCart",
                                    !.cart_id = (CHOOSE c \in rows : TRUE).id]
                     ELSE [w EXCEPT !.pc = "resetTotal"])
    /\ UNCHANGED <<products, nextProductId, carts, cart_items, nextItemId, cart_totals,
                   orders, order_items, payment_references, emails, adminOps, resp,
                   lastEvent>>

\* a handler that gives up when a datastore call reports an error (not what
\* the code does)
AbortOnError(next, ok) == IF ok THEN next ELSE "done"

\* The datastore client reports a failed call in the error field of the
\* value the await yields.  Lines 232-255 never read that field, so the
\* handler goes on to the next statement whether the call succeeded or not.
AfterCall(next, ok) == next

\* line 232
ClearCart(i) ==
    LET w == webhooks[i] IN
    /\ w.pc = "clearCart"
    /\ \E ok \in BOOLEAN :
          /\ cart_items' = IF ok THEN {it \in cart_items : it.cart_id # w.cart_id}
                           ELSE cart_items
          /\ SetWebhook(i, [w EXCEPT !.pc = AfterCall("resetTotal", ok)])
    /\ UNCHANGED <<products, nextProductId, carts, nextItemId, cart_totals, orders,
                   order_items, payment_references, emails, adminOps, resp, lastEvent>>

\* line 234
ResetTotal(i) ==
    LET w == webhooks[i] IN
    /\ w.pc = "resetTotal"
    /\ \E ok \in BOOLEAN :
          /\ cart_totals' = IF ok THEN ResetCartTotals(cart_totals, w.user_id)
                            ELSE cart_totals
          /\ SetWebhook(i, [w EXCEPT !.pc = AfterCall("insertReference", ok)])
    /\ UNCHANGED <<products, nextProductId, carts, cart_items, nextItemId, orders,
                   order_items, payment_references, emails, adminOps, resp, lastEvent>>

\* lines 235-244 (charge.success) and 284-293 (charge.failed)
InsertReference(i) ==
    LET w == webhooks[i] IN
    /\ w.pc = "insertReference"
    /\ \E ok \in BOOLEAN :
          /\ ok => Len(payment_references) < MaxRefs
          /\ payment_references' =
                 IF ok THEN InsertPaymentReference(payment_references, w.user_id,
                                                   w.req.body.order_id, w.req.body.event)
                 ELSE payment_references
          /\ SetWebhook(i, [w EXCEPT !.pc = AfterCall(IF w.req.body.event = "charge.success"
                                                      THEN "selectItems" ELSE "respond",
                                                      ok)])
    /\ UNCHANGED <<products, nextProductId, carts, cart_items, nextItemId, cart_totals,
                   orders, order_items, emails, adminOps, resp, lastEvent>>

\* lines 245-248
SelectItems(i) ==
    LET w == webhooks[i] IN
    /\ w.pc = "selectItems"
    /\ SetWebhook(i, [w EXCEPT !.pc = "decrement",
                               !.items = OrderItemsOf(order_items, w.req.body.order_id)])
    /\ UNCHANGED <<products, nextProductId, carts, cart_items, nextItemId, cart_totals,
                   orders, order_items, payment_references, emails, adminOps, resp,
                   lastEvent>>

\* lines 249-255: one turn of the loop
Decrement(i) ==
    LET w == webhooks[i] IN
    /\ w.pc = "decrement"
    /\ w.items # <<>>
    /\ \E applies \in BOOLEAN :
          /\ products' = DecrementOne(products, Head(w.items).product_id,
                                      Head(w.items).quantity, applies)
          /\ SetWebhook(i, [w EXCEPT !.pc = AfterCall("decrement", applies),
                                     !.items = Tail(w.items)])
    /\ UNCHANGED <<nextProductId, carts, cart_items, nextItemId, cart_totals, orders,
                   order_items, payment_references, emails, adminOps, resp, lastEvent>>

\* lines 279-283
MarkFailed(i) ==
    LET w == webhooks[i] IN
    /\ w.pc = "markFailed"
    /\ orders' = SetOrderStatus(orders, w.req.body.order_id, w.user_id, "failed")
    /\ SetWebhook(i, [w EXCEPT !.pc = "insertReference",
                               !.seen = IF OrderCheck(orders, w.req.body.order_id, w.user_id)
                                        THEN orders[w.req.body.order_id].status ELSE ""])
    /\ UNCHANGED <<products, nextProductId, carts, cart_items, nextItemId, cart_totals,
                   order_items, payment_references, emails, adminOps, resp, lastEvent>>

\* lines 256, 294, 318: res.sendStatus(200); the charge.success and
\* charge.failed branches then call transporter.sendMail
Respond(i) ==
    LET w == webhooks[i] IN
    /\ \/ w.pc = "respond"
       \/ w.pc = "decrement" /\ w.items = <<>>
    /\ Answer(i, 200, "OK")
    /\ SetWebhook(i, [w EXCEPT !.pc = IF w.req.body.event \in {"charge.success",
                                                               "charge.failed"}
                                      THEN "mail" ELSE "done"])
    /\ UNCHANGED <<products, nextProductId, carts, cart_items, nextItemId, cart_totals,
                   orders, order_items, payment_references, emails, adminOps>>

\* a rejected sendMail promise that reaches the handler's catch block and
\* its res.status(500) (not what the code does)
MailErrorSurfaced(r, delivered) == IF delivered THEN r ELSE [r EXCEPT !.status = 500]

\* .catch(err => console.error(...)): the rejection is logged and the
\* response stays as it was sent
MailOutcome(r, delivered) == r

\* lines 257-277, 295-316: the promise of transporter.sendMail settles; in
\* this specification emails holds the mails the transporter delivered
SendReceipt(i) ==
    LET w == webhooks[i] IN
    /\ w.pc = "mail"
    /\ \E delivered \in BOOLEAN :
          /\ emails' = IF delivered
                       THEN SendMail(emails, w.req.body.email,
                                     IF w.req.body.event = "charge.success"
                                     THEN "success" ELSE "failed")
                       ELSE emails
          /\ resp' = MailOutcome(resp, delivered)
    /\ SetWebhook(i, [w EXCEPT !.pc = "done"])
    /\ UNCHANGED <<products, nextProductId, carts, cart_items, nextItemId, cart_totals,
                   orders, order_items, payment_references, adminOps, lastEvent>>

NextConc ==
    \/ \E p \in ProductIds, q \in 1..MaxQty : AddToCart("u1", p, q)
    \/ CreateOrder("u1")
    \/ \E i \in Deliveries, req \in SignedEvents : Receive(i, req)
    \/ \E i \in Deliveries : SelectOrder(i)
    \/ \E i \in Deliveries : MarkPaid(i)
    \/ \E i \in Deliveries : SelectCart(i)
    \/ \E i \in Deliveries : ClearCart(i)
    \/ \E i \in Deliveries : ResetTotal(i)
    \/ \E i \in Deliveries : InsertReference(i)
    \/ \E i \in Deliveries : SelectItems(i)
    \/ \E i \in Deliveries : Decrement(i)
    \/ \E i \in Deliveries : MarkFailed(i)
    \/ \E i \in Deliveries : Respond(i)
    \/ \E i \in Deliveries : SendReceipt(i)

SpecConc == Init /\ [][NextConc]_vars

(***************************************************************************)
(* The orders router (routes/cartRoutes.js:20-24) and the read handlers.   *)
(* A request path is the sequence of its segments below the mount point:   *)
(* <<>> is "/", <<"1">> is "/1", <<"history">> is "/history".              *)
(***************************************************************************)
\* router.METHOD(path, authenticateToken, handler), in the order of registration
OrderRoutes ==
    << [method |-> "POST", path |-> <<>>,                handler |-> "createOrder"],
       [method |-> "GET",  path |-> <<>>,                handler |-> "getOrders"],
       [method |-> "GET",  path |-> <<":id">>,           handler |-> "getOrderById"],
       [method |-> "PUT",  path |-> <<":id", "status">>, handler |-> "updateOrderStatus"],
       [method |-> "GET",  path |-> <<"history">>,       handler |-> "getOrderHistory"] >>

\* a route matches segment by segment; a named parameter matches any segment
MatchPath(pattern, path) ==
    /\ Len(pattern) = Len(path)
    /\ \A i \in DOMAIN pattern : pattern[i] = ":id" \/ pattern[i] = path[i]

\* the router hands the request to the first registered route that matches;
\* none of the handlers calls next()
Dispatch(method, path) ==
    LET hits == {i \in DOMAIN OrderRoutes :
                    /\ OrderRoutes[i].method = method
                    /\ MatchPath(OrderRoutes[i].path, path)}
    IN  IF hits = {} THEN "none"
        ELSE OrderRoutes[CHOOSE i \in hits : \A j \in hits : i <= j].handler

\* the paths of the GET requests considered
GetPaths == {<<>>, <<"1">>, <<"2">>, <<"history">>}

\* the order id a path segment spells; 0 when it spells none, and the
\* datastore then reports an error for the comparison with the id column
ParseId(seg) == CASE seg = "1" -> 1 [] seg = "2" -> 2 [] OTHER -> 0

\* a select without the user_id filter (not what the code does)
AllOrderIds(os, u) == DOMAIN os

\* orders ... .eq('user_id', req.user.id)
OwnOrderIds(os, u) == {i \in DOMAIN os : os[i].user_id = u}

OrderRow(os, i) == [id |-> i, user_id |-> os[i].user_id, status |-> os[i].status,
                    total_amount |-> os[i].total_amount]

RECURSIVE NewestFirst(_, _)
\* .order('created_at', {ascending: false}): created_at is the time of the
\* insert, so later ids come first
NewestFirst(os, ids) ==
    IF ids = {} THEN <<>>
    ELSE LET i == CHOOSE x \in ids : \A y \in ids : y <= x
         IN  <<OrderRow(os, i)>> \o NewestFirst(os, ids \ {i})

GetOrders(os, u) ==
    [status |-> 200, msg |-> "", body |-> NewestFirst(os, OwnOrderIds(os, u))]

GetOrderById(os, u, seg) ==
    IF ParseId(seg) \in OwnOrderIds(os, u)
    THEN [status |-> 200, msg |-> "", body |-> <<OrderRow(os, ParseId(seg))>>]
    ELSE [status |-> 404, msg |-> "Order not found", body |-> <<>>]

GetOrderHistory(os, u) ==
    [status |-> 200, msg |-> "",
     body |-> NewestFirst(os, {i \in OwnOrderIds(os, u) : os[i].status = "paid"})]

\* the response to a read request, with the caller and the path it answers
ReadResponse(op, caller, path, r) ==
    [op |-> op, status |-> r.status, msg |-> r.msg, grand_total |-> 0, prev |-> "",
     sig |-> "", caller |-> caller, path |-> path, body |-> r.body]

\* GET <path> on the orders router by an authenticated user
HandleGet(u, path) ==
    LET handler == Dispatch("GET", path)
        r == CASE handler = "getOrders"       -> GetOrders(orders, u)
               [] handler = "getOrderById"    -> GetOrderById(orders, u, path[1])
               [] handler = "getOrderHistory" -> GetOrderHistory(orders, u)
               [] OTHER -> [status |-> 404, msg |-> "Cannot GET", body |-> <<>>]
    IN
    /\ resp' = ReadResponse(handler, u, path, r)
    /\ lastEvent' = NoEvent
    /\ UNCHANGED <<products, nextProductId, carts, cart_items, nextItemId, cart_totals,
                   orders, order_items, payment_references, emails, adminOps, webhooks,
                   calls>>

\* items.map(item => ({...item, total_price: item.products.price * item.quantity}))
Enriched(items, prods) ==
    {[id |-> it.id, product_id |-> it.product_id, quantity |-> it.quantity,
      total_price |-> prods[it.product_id].price * it.quantity] : it \in items}

\* cart_totals.select('grand_total').eq('user_id', ...).maybeSingle(), then
\* totalData?.grand_total || 0
ReadCartTotals(totals, u) == IF u \in DOMAIN totals THEN totals[u] ELSE 0

\* getCart: the items of the caller's cart with their total_price, and the
\* grand_total read from cart_totals
GetCart(u) ==
    LET g     == GetOrCreateCart(carts, u)
        items == ItemsOfCart(cart_items, g.id)
        ok    == g.ok /\ \A it \in items : it.product_id \in DOMAIN products
    IN
    /\ carts' = g.carts
    /\ resp' = [ReadResponse("getCart", u, <<>>,
                             IF ok THEN [status |-> 200, msg |-> "",
                                         body |-> Enriched(items, products)]
                             ELSE [status |-> 500, msg |-> "error", body |-> {}])
                  EXCEPT !.grand_total = IF ok THEN ReadCartTotals(cart_totals, u) ELSE 0]
    /\ lastEvent' = NoEvent
    /\ UNCHANGED <<products, nextProductId, cart_items, nextItemId, cart_totals, orders,
                   order_items, payment_references, emails, adminOps, webhooks, calls>>

NextRead ==
    \/ \E u \in Users, p \in ProductIds, q \in 1..MaxQty : AddToCart(u, p, q)
    \/ \E u \in Users : CreateOrder(u)
    \/ \E u \in Users, i \in 1..MaxOrders, st \in StatusVals : UpdateOrderStatus(u, i, st)
    \/ \E req \in SignedEvents : PaystackWebhook(req)
    \/ \E u \in Users, path \in GetPaths : HandleGet(u, path)
    \/ \E u \in Users : GetCart(u)

SpecRead == Init /\ [][NextRead]_vars

(***************************************************************************)
(* The payload of a gateway event in full.  Besides the fields the handler *)
(* tests, data carries amount (in minor units; 0 stands for a missing      *)
(* field) and reference, channel, currency, status and paid_at, which      *)
(* details tells to be all present or not.  event "" stands for a payload  *)
(* without the event field.                                                *)
(***************************************************************************)
\* data.amount of the events considered, in minor units
AmountVals == {0, 500, 1000, 2000}

HookBodies ==
    [json : {TRUE}, event : Events \cup {""}, data : {TRUE},
     email : {EmailOf("u1"), NoEmail}, order_id : 0..MaxOrders,
     amount : AmountVals, details : BOOLEAN]
      \cup {[json |-> TRUE, event |-> "charge.success", data |-> FALSE,
              email |-> NoEmail, order_id |-> 0, amount |-> 0, details |-> FALSE]}

\* the gateway signs what it sends with the secret key
HookRequests == {[body |-> b, signature |-> Hmac(SecretKey, b)] : b \in HookBodies}

\* const amount = data.amount ? data.amount / 100 : 0
AmountOf(body) == IF body.amount # 0 THEN body.amount \div 100 ELSE 0

\* the amounts, in major units, a client asks to be charged
ChargeVals == {0, 5, 10}

\* initiatePayment: amount, email and order_id are taken from the request
\* body and forwarded to the gateway (amount in minor units); forwarded is
\* what the gateway was asked to charge.  The call may fail.
InitiatePayment(amount, email, order_id) ==
    /\ IF amount = 0 \/ email = NoEmail \/ order_id = 0
       THEN resp' = Response("initiatePayment", 400,
                             "Amount, email, and order_id are required", 0, "")
                      @@ ("forwarded" :> 0)
       ELSE \E initialized \in BOOLEAN :
              resp' = Response("initiatePayment", IF initialized THEN 200 ELSE 500,
                               "", 0, "")
                        @@ ("forwarded" :> IF initialized THEN amount * 100 ELSE 0)
    /\ lastEvent' = NoEvent
    /\ UNCHANGED <<products, nextProductId, carts, cart_items, nextItemId, cart_totals,
                   orders, order_items, payment_references, emails, adminOps, webhooks,
                   calls>>

NextHook ==
    \/ \E p \in ProductIds, q \in 1..MaxQty : AddToCart("u1", p, q)
    \/ CreateOrder("u1")
    \/ \E amount \in ChargeVals, email \in {EmailOf("u1"), NoEmail},
          order_id \in 0..MaxOrders : InitiatePayment(amount, email, order_id)
    \/ \E req \in HookRequests : PaystackWebhook(req)

SpecHook == Init /\ [][NextHook]_vars

(***************************************************************************)
(* Concurrent requests: addToCart, createOrder and deleteProduct one await *)
(* at a time.  Two properties of the datastore bear on the outcome:        *)
(*  - cart_items.product_id and order_items.product_id are foreign keys    *)
(*    to products: the handlers embed products through them                *)
(*    (the select naming products:product_id, cartController.js:107), which *)
(*    the query API resolves through a foreign key only.  A row that       *)
(*    references a missing product is rejected; what a delete of a         *)
(*    referenced product does (rejected, or cascading) is the schema's     *)
(*    choice, which the repository does not show.                          *)
(*  - whether carts.user_id is unique is not shown by the repository       *)
(*    either: an insert of a second row for a user either fails or adds    *)
(*    the row.                                                             *)
(***************************************************************************)
SetCall(c, r) == calls' = [calls EXCEPT ![c] = r] /\ UNCHANGED webhooks

\* the handler answers and returns; its locals are gone
Finish(c, status, msg, total) ==
    /\ SetCall(c, [IdleCall EXCEPT !.op = calls[c].op, !.pc = "done"])
    /\ resp' = Response(calls[c].op, status, msg, total, "")
    /\ lastEvent' = NoEvent

\* a datastore without the foreign keys (not the one the handlers run on)
NoForeignKey(prods, product_id) == TRUE

\* the foreign key to products admits the row
ForeignKeyHolds(prods, product_id) == product_id \in DOMAIN prods

\* addToCart, lines 69-70: the body is checked, then getOrCreateCart is called
StartAddToCart(c, u, productId, quantity) ==
    /\ calls[c].pc \in {"idle", "done"}
    /\ productId # 0 /\ quantity # 0
    /\ SetCall(c, [IdleCall EXCEPT !.op = "addToCart", !.pc = "selectCart", !.u = u,
                                   !.product_id = productId, !.quantity = quantity])
    /\ UNCHANGED <<products, nextProductId, carts, cart_items, nextItemId, cart_totals,
                   orders, order_items, payment_references, emails, adminOps, resp,
                   lastEvent>>

\* createOrder, line 22
StartCreateOrder(c, u) ==
    /\ calls[c].pc \in {"idle", "done"}
    /\ SetCall(c, [IdleCall EXCEPT !.op = "createOrder", !.pc = "selectCart", !.u = u])
    /\ UNCHANGED <<products, nextProductId, carts, cart_items, nextItemId, cart_totals,
                   orders, order_items, payment_references, emails, adminOps, resp,
                   lastEvent>>

\* deleteProduct, lines 98-101: the role check
StartDeleteProduct(c, u, id) ==
    /\ calls[c].pc \in {"idle", "done"}
    /\ IF Role(u) # "admin"
       THEN /\ SetCall(c, [IdleCall EXCEPT !.op = "deleteProduct", !.pc = "done"])
            /\ resp' = Response("deleteProduct", 403, "Only admins can delete products",
                                0, "")
            /\ lastEvent' = NoEvent
       ELSE /\ SetCall(c, [IdleCall EXCEPT !.op = "deleteProduct", !.pc = "deleteCartItems",
                                           !.u = u, !.product_id = id])
            /\ UNCHANGED <<resp, lastEvent>>
    /\ UNCHANGED <<products, nextProductId, carts, cart_items, nextItemId, cart_totals,
                   orders, order_items, payment_references, emails, adminOps>>

\* where the handler goes on after getOrCreateCart
AfterCart(op) == IF op = "addToCart" THEN "selectProduct" ELSE "selectItems"

\* getOrCreateCart, lines 4-10: the select
CartSelect(c) ==
    LET k == calls[c]
        rows == CartRowsOf(carts, k.u)
    IN
    /\ k.pc = "selectCart"
    /\ IF Cardinality(rows) > 1
       THEN Finish(c, 500, "error", 0)
       ELSE /\ SetCall(c, IF rows = {} THEN [k EXCEPT !.pc = "insertCart"]
                          ELSE [k EXCEPT !.pc = AfterCart(k.op),
                                         !.cart_id = (CHOOSE r \in rows : TRUE).id])
            /\ UNCHANGED <<resp, lastEvent>>
    /\ UNCHANGED <<products, nextProductId, carts, cart_items, nextItemId, cart_totals,
                   orders, order_items, payment_references, emails, adminOps>>

\* getOrCreateCart, lines 11-17: the insert
CartInsert(c) ==
    LET k == calls[c] IN
    /\ k.pc = "insertCart"
    /\ \E unique \in BOOLEAN :
          IF unique /\ CartRowsOf(carts, k.u) # {}
          THEN /\ Finish(c, 500, "error", 0)
               /\ UNCHANGED carts
          ELSE /\ carts' = carts \cup {[id |-> NewCartId(carts), user_id |-> k.u,
                                         grand_total |-> DefaultGrandTotal]}
               /\ SetCall(c, [k EXCEPT !.pc = AfterCart(k.op),
                                       !.cart_id = NewCartId(carts)])
               /\ UNCHANGED <<resp, lastEvent>>
    /\ UNCHANGED <<products, nextProductId, cart_items, nextItemId, cart_totals,
                   orders, order_items, payment_references, emails, adminOps>>

\* addToCart, lines 73-81: the product select and the stock check
ProductSelect(c) ==
    LET k == calls[c] IN
    /\ k.pc = "selectProduct"
    /\ IF k.product_id \notin DOMAIN products
       THEN Finish(c, 404, "Product not found", 0)
       ELSE IF ExceedsStock(k.quantity, products[k.product_id].stock_count)
       THEN Finish(c, 400, "Only N items in stock", 0)
       ELSE /\ SetCall(c, [k EXCEPT !.pc = "insertItem"])
            /\ UNCHANGED <<resp, lastEvent>>
    /\ UNCHANGED <<products, nextProductId, carts, cart_items, nextItemId, cart_totals,
                   orders, order_items, payment_references, emails, adminOps>>

\* addToCart, lines 82-87: the cart_items insert
ItemInsert(c) ==
    LET k == calls[c] IN
    /\ k.pc = "insertItem"
    /\ IF ~ForeignKeyHolds(products, k.product_id)
       THEN /\ Finish(c, 400, "error", 0)
            /\ UNCHANGED <<cart_items, nextItemId>>
       ELSE /\ MayInsertItem
            /\ cart_items' = cart_items \cup {[id |-> nextItemId, cart_id |-> k.cart_id,
                                                product_id |-> k.product_id,
                                                quantity |-> k.quantity]}
            /\ nextItemId' = nextItemId + 1
            /\ SetCall(c, [k EXCEPT !.pc = "grandTotal"])
            /\ UNCHANGED <<resp, lastEvent>>
    /\ UNCHANGED <<products, nextProductId, carts, cart_totals, orders, order_items,
                   payment_references, emails, adminOps>>

\* addToCart, lines 88-93: updateGrandTotal and the answer
GrandTotal(c) ==
    LET k == calls[c]
        t == UpdateGrandTotal(carts, cart_items, products, k.u)
    IN
    /\ k.pc = "grandTotal"
    /\ carts' = t.carts
    /\ Finish(c, 201, "", t.total)
    /\ UNCHANGED <<products, nextProductId, cart_items, nextItemId, cart_totals,
                   orders, order_items, payment_references, emails, adminOps>>

\* createOrder, lines 23-32: the cart lines with the product embedded
ItemsSelect(c) ==
    LET k == calls[c]
        lines == OrderItemsData(ItemsOfCart(cart_items, k.cart_id), products, 0)
    IN
    /\ k.pc = "selectItems"
    /\ IF lines = <<>>
       THEN Finish(c, 400, "Cart is empty", 0)
       ELSE /\ SetCall(c, [k EXCEPT !.pc = "insertOrder", !.lines = lines])
            /\ UNCHANGED <<resp, lastEvent>>
    /\ UNCHANGED <<products, nextProductId, carts, cart_items, nextItemId, cart_totals,
                   orders, order_items, payment_references, emails, adminOps>>

\* createOrder, lines 33-45: the orders insert
OrderInsert(c) ==
    LET k == calls[c] IN
    /\ k.pc = "insertOrder"
    /\ Len(orders) < MaxOrders
    /\ orders' = Append(orders, [user_id |-> k.u,
                                 total_amount |-> SumOrderLines(k.lines),
                                 status |-> "pending"])
    /\ SetCall(c, [k EXCEPT !.pc = "insertOrderItems", !.order_id = Len(orders) + 1])
    /\ UNCHANGED <<products, nextProductId, carts, cart_items, nextItemId, cart_totals,
                   order_items, payment_references, emails, adminOps, resp, lastEvent>>

\* createOrder, lines 46-63: the order_items insert (one statement) and the answer
OrderItemsInsert(c) ==
    LET k == calls[c] IN
    /\ k.pc = "insertOrderItems"
    /\ IF \E i \in DOMAIN k.lines : ~ForeignKeyHolds(products, k.lines[i].product_id)
       THEN /\ Finish(c, 500, "error", 0)
            /\ UNCHANGED order_items
       ELSE /\ order_items' = order_items
                                \o [i \in DOMAIN k.lines |->
                                       [k.lines[i] EXCEPT !.order_id = k.order_id]]
            /\ Finish(c, 201, "pending", SumOrderLines(k.lines))
    /\ UNCHANGED <<products, nextProductId, carts, cart_items, nextItemId, cart_totals,
                   orders, payment_references, emails, adminOps>>

\* deleteProduct, line 103
DeleteCartItemsOfProduct(c) ==
    LET k == calls[c] IN
    /\ k.pc = "deleteCartItems"
    /\ cart_items' = {it \in cart_items : it.product_id # k.product_id}
    /\ SetCall(c, [k EXCEPT !.pc = "deleteOrderItems"])
    /\ UNCHANGED <<products, nextProductId, carts, nextItemId, cart_totals, orders,
                   order_items, payment_references, emails, adminOps, resp, lastEvent>>

\* deleteProduct, line 104
DeleteOrderItemsOfProduct(c) ==
    LET k == calls[c] IN
    /\ k.pc = "deleteOrderItems"
    /\ order_items' = SelectSeq(order_items, LAMBDA oi : oi.product_id # k.product_id)
    /\ SetCall(c, [k EXCEPT !.pc = "deleteProduct"])
    /\ UNCHANGED <<products, nextProductId, carts, cart_items, nextItemId, cart_totals,
                   orders, payment_references, emails, adminOps, resp, lastEvent>>

\* rows of cart_items or order_items reference the product
Referenced(id) ==
    \/ \E it \in cart_items : it.product_id = id
    \/ \E i \in DOMAIN order_items : order_items[i].product_id = id

\* deleteProduct, lines 105-112: the products delete and the answer
DeleteProductRow(c) ==
    LET k == calls[c] IN
    /\ k.pc = "deleteProduct"
    /\ IF k.product_id \notin DOMAIN products
       THEN /\ Finish(c, 404, "Product not found", 0)
            /\ UNCHANGED <<products, cart_items, order_items, adminOps>>
       ELSE \E cascades \in BOOLEAN :
              IF Referenced(k.product_id) /\ ~cascades
              THEN /\ Finish(c, 404, "Product not found", 0)
                   /\ UNCHANGED <<products, cart_items, order_items, adminOps>>
              ELSE /\ MayAdminWrite
                   /\ products' = RemoveKey(products, k.product_id)
                   /\ cart_items' = {it \in cart_items : it.product_id # k.product_id}
                   /\ order_items' = SelectSeq(order_items,
                                               LAMBDA oi : oi.product_id # k.product_id)
                   /\ adminOps' = adminOps + 1
                   /\ Finish(c, 200, "Product deleted successfully", 0)
    /\ UNCHANGED <<nextProductId, carts, nextItemId, cart_totals, orders,
                   payment_references, emails>>

\* two requests at a time: addToCart beside addToCart, and addToCart or
\* createOrder beside deleteProduct
NextRace ==
    \/ \E c \in CallIds, u \in Users, p \in ProductIds, q \in 1..MaxQty :
          StartAddToCart(c, u, p, q)
    \/ \E u \in Users : StartCreateOrder(1, u)
    \/ \E u \in Users, p \in ProductIds : StartDeleteProduct(2, u, p)
    \/ \E c \in CallIds : CartSelect(c)
    \/ \E c \in CallIds : CartInsert(c)
    \/ \E c \in CallIds : ProductSelect(c)
    \/ \E c \in CallIds : ItemInsert(c)
    \/ \E c \in CallIds : GrandTotal(c)
    \/ \E c \in CallIds : ItemsSelect(c)
    \/ \E c \in CallIds : OrderInsert(c)
    \/ \E c \in CallIds : OrderItemsInsert(c)
    \/ \E c \in CallIds : DeleteCartItemsOfProduct(c)
    \/ \E c \in CallIds : DeleteOrderItemsOfProduct(c)
    \/ \E c \in CallIds : DeleteProductRow(c)

SpecRace == Init /\ [][NextRace]_vars

(***************************************************************************)
(* Properties                                                              *)
(***************************************************************************)
tables == <<products, carts, cart_items, cart_totals, orders, order_items,
            payment_references>>

\* the cart rows, items and stored total of a user (no cart row: no items, total 0)
CartItemsOf(u) == {it \in cart_items : \E c \in CartRowsOf(carts, u) : it.cart_id = c.id}

CartTotalOf(u) == IF CartRowsOf(carts, u) = {} THEN 0
                  ELSE (CHOOSE c \in CartRowsOf(carts, u) : TRUE).grand_total

\* the step just taken handled a charge.success event that was answered 200
\* after marking the order paid; PaidFromPending: the order was pending before
PaidStep == resp'.op = "paystackWebhook" /\ lastEvent' # NoEvent

PaidFromPending == PaidStep /\ resp'.prev = "pending"

\* the order holds at least one item and only positive quantities
OrderWellFormed(order_id) ==
    /\ OrderItemsOf(order_items, order_id) # <<>>
    /\ \A i \in DOMAIN order_items :
          order_items[i].order_id = order_id => order_items[i].quantity >= 1

\* C1: delivering the same validly signed charge.success event a second time,
\* right after the delivery that took the order from pending to paid, changes
\* no order, product, cart or payment-reference state.
C1_SecondDeliveryNoOp ==
    [][(/\ lastEvent # NoEvent
        /\ resp.prev = "pending"
        /\ OrderWellFormed(lastEvent.body.order_id)
        /\ PaystackWebhook(lastEvent))
         => UNCHANGED tables]_vars

\* the invocation has executed the update that sets the order paid
PastMarkPaid(i) ==
    webhooks[i].pc \in {"selectCart", "clearCart", "resetTotal", "insertReference",
                        "selectItems", "decrement", "mail", "done"}

\* C2: of two concurrent invocations for the same charge.success event that
\* both found the order pending, at most one sets it paid and goes on to the
\* side effects.
C2_AtMostOneTransition ==
    \A i, j \in Deliveries :
        (/\ i # j
         /\ webhooks[i].req = webhooks[j].req
         /\ webhooks[i].req.body.event = "charge.success"
         /\ webhooks[i].seen = "pending" /\ webhooks[j].seen = "pending")
          => ~(PastMarkPaid(i) /\ PastMarkPaid(j))

\* C3: once an order is paid or failed, no webhook event changes its status.
C3_TerminalStatuses ==
    [][resp'.op = "paystackWebhook"
         => \A o \in DOMAIN orders :
               orders[o].status \in {"paid", "failed"}
                 => orders'[o].status = orders[o].status]_vars

\* C4: a webhook request whose signature header is absent or differs from the
\* HMAC of the raw body under the shared secret is rejected (400/401), changes
\* no table and sends no email.
C4_BadSignatureRejected ==
    [][(resp'.op = "paystackWebhook" /\ resp'.sig # "matching")
         => /\ resp'.status \in {400, 401}
            /\ UNCHANGED tables
            /\ UNCHANGED emails]_vars

C4_Witness ==
    /\ resp.op = "paystackWebhook"
    /\ resp.msg = "Invalid signature"
    /\ \E o \in DOMAIN orders : orders[o].status = "pending"

\* C5: every product's stock_count is >= 0 in every reachable state.
C5_StockNeverNegative ==
    \A p \in DOMAIN products : products[p].stock_count >= 0

RECURSIVE OrderedQuantity(_, _, _)
\* the sum of the quantities of the order's items that reference the product
OrderedQuantity(ois, order_id, p) ==
    IF ois = <<>> THEN 0
    ELSE (IF Head(ois).order_id = order_id /\ Head(ois).product_id = p
          THEN Head(ois).quantity ELSE 0)
         + OrderedQuantity(Tail(ois), order_id, p)

\* C6: processing charge.success for a pending order lowers the stock_count of
\* each product by the quantity the order's items hold of it.
C6_StockDecremented ==
    [][(PaidFromPending /\ OrderWellFormed(lastEvent'.body.order_id))
         => \A p \in DOMAIN products :
               products'[p].stock_count =
                   products[p].stock_count
                     - OrderedQuantity(order_items, lastEvent'.body.order_id, p)]_vars

\* C7: after charge.success for a pending order is processed, the paying
\* user's cart has no items and the grand_total stored in its carts row is 0.
C7_CartCleared ==
    [][(PaidFromPending /\ OrderWellFormed(lastEvent'.body.order_id))
         => \A u \in UsersByEmail(lastEvent'.body.email) :
               CartItemsOf(u)' = {} /\ CartTotalOf(u)' = 0]_vars

CartMutation(u) ==
    \/ \E p \in 0..MaxProducts, q \in QtyVals : AddToCart(u, p, q)
    \/ \E i \in 1..MaxItems, q \in QtyVals : UpdateCartItem(u, i, q)
    \/ \E i \in 1..MaxItems : DeleteCartItem(u, i)

\* C8: right after a successful addToCart, updateCartItem or deleteCartItem,
\* the grand_total of the response and the one stored in the caller's cart
\* both equal the sum of quantity x current price over the cart's items.
C8_GrandTotalIsSum ==
    [][\A u \in Users :
          (/\ resp'.op \in {"addToCart", "updateCartItem", "deleteCartItem"}
           /\ resp'.status \in {200, 201}
           /\ CartMutation(u))
            => /\ resp'.grand_total = SumSet(CartItemsOf(u)', products')
               /\ CartTotalOf(u)' = SumSet(CartItemsOf(u)', products')]_vars

C8_Witness ==
    /\ resp.op = "addToCart"
    /\ resp.status = 201
    /\ \E u \in Users : Cardinality(CartItemsOf(u)) = 2 /\ resp.grand_total = 20

\* C9: addToCart or updateCartItem with a quantity above the product's
\* stock_count answers 400 and leaves the caller's cart items and stored
\* grand_total unchanged.
C9_InsufficientStock ==
    [][resp'.op \in {"addToCart", "updateCartItem"} =>
       \A u \in Users, q \in QtyVals :
          /\ \A p \in DOMAIN products :
                (q > products[p].stock_count /\ AddToCart(u, p, q))
                  => /\ resp'.status = 400
                     /\ CartItemsOf(u)' = CartItemsOf(u)
                     /\ CartTotalOf(u)' = CartTotalOf(u)
          /\ \A it \in CartItemsOf(u) :
                (/\ q > products[it.product_id].stock_count
                 /\ UpdateCartItem(u, it.id, q))
                  => /\ resp'.status = 400
                     /\ CartItemsOf(u)' = CartItemsOf(u)
                     /\ CartTotalOf(u)' = CartTotalOf(u)]_vars

C9_Witness ==
    /\ resp.op = "updateCartItem"
    /\ resp.msg = "Only N items in stock"
    /\ \E u \in Users : CartItemsOf(u) # {} /\ CartTotalOf(u) > 0

\* C10: every persisted cart item has quantity >= 1.
C10_QuantityPositive ==
    \A it \in cart_items : it.quantity >= 1

\* C11: createOrder by a caller whose cart has no items answers 400 and
\* inserts no orders row and no order_items rows.
C11_EmptyCartRejected ==
    [][\A u \in Users :
          (resp'.op = "createOrder" /\ CartItemsOf(u) = {} /\ CreateOrder(u))
            => /\ resp'.status = 400
               /\ UNCHANGED <<orders, order_items>>]_vars

C11_Witness ==
    /\ resp.op = "createOrder"
    /\ resp.msg = "Cart is empty"
    /\ cart_items # {}
    /\ orders = <<>>

\* the indices of the order_items rows of an order
ItemIndicesOf(ois, order_id) == {i \in DOMAIN ois : ois[i].order_id = order_id}

RECURSIVE SumOrderItems(_, _)
\* the sum of quantity x price_at_order over the rows at the given indices
SumOrderItems(ois, idx) ==
    IF idx = {} THEN 0
    ELSE LET i == CHOOSE x \in idx : TRUE
         IN  ois[i].quantity * ois[i].price_at_order + SumOrderItems(ois, idx \ {i})

C15_NonAdminForbidden ==
    [][\A u \in Users, id \in 1..MaxOrders, st \in StatusVals :
          (resp'.op = "updateOrderStatus" /\ Role(u) # "admin"
             /\ UpdateOrderStatus(u, id, st))
            => resp'.status = 403 /\ UNCHANGED orders]_vars

\* a request made with the identity of user u (any handler behind authenticateToken)
RequestBy(u) ==
    \/ CartMutation(u)
    \/ CreateOrder(u)
    \/ \E i \in 1..MaxOrders, st \in StatusVals : UpdateOrderStatus(u, i, st)
    \/ \E v \in ProductVals : CreateProduct(u, v.price, v.stock_count)
    \/ \E p \in ProductIds, v \in ProductVals : UpdateProduct(u, p, v.price, v.stock_count)
    \/ \E p \in ProductIds : DeleteProduct(u, p)

\* C16: an order goes from pending to paid only in a charge.success webhook
\* with a matching signature that names the order and whose email resolves to
\* the order's owner, or in an admin's updateOrderStatus; a request made by a
\* customer changes no existing order's status.
C16_PaidOnlyByWebhookOrAdmin ==
    [][/\ \A o \in DOMAIN orders :
             (orders[o].status = "pending" /\ orders'[o].status = "paid")
               => \/ /\ resp'.op = "paystackWebhook"
                     /\ resp'.sig = "matching"
                     /\ lastEvent' # NoEvent
                     /\ lastEvent'.body.event = "charge.success"
                     /\ lastEvent'.body.order_id = o
                     /\ UsersByEmail(lastEvent'.body.email) = {orders[o].user_id}
                  \/ /\ resp'.op = "updateOrderStatus"
                     /\ \E u \in Users : Role(u) = "admin" /\ UpdateOrderStatus(u, o, "paid")
       /\ \A u \in Users :
             (/\ \E o \in DOMAIN orders : orders'[o].status # orders[o].status
              /\ resp'.op # "paystackWebhook"
              /\ Role(u) = "customer")
               => ~RequestBy(u)]_vars

C16_Witness ==
    /\ resp.op = "paystackWebhook"
    /\ resp.status = 200
    /\ resp.prev = "pending"
    /\ lastEvent # NoEvent
    /\ orders[lastEvent.body.order_id].status = "paid"

ReadOps == {"getOrders", "getOrderById", "getOrderHistory"}

\* C17: getOrders returns exactly the caller's orders; getOrderById for an
\* order of another user answers 404 with the response it gives when no such
\* order exists; neither changes a table.
C17_OrdersScopedToCaller ==
    [][/\ resp'.op = "getOrders"
            => /\ resp'.status = 200
               /\ {resp'.body[i].id : i \in DOMAIN resp'.body}
                     = {o \in DOMAIN orders : orders[o].user_id = resp'.caller}
               /\ \A i \in DOMAIN resp'.body :
                     resp'.body[i] = OrderRow(orders, resp'.body[i].id)
               /\ UNCHANGED tables
       /\ (/\ resp'.op = "getOrderById"
           /\ ParseId(resp'.path[1]) \in DOMAIN orders
           /\ orders[ParseId(resp'.path[1])].user_id # resp'.caller)
            => /\ resp'.status = 404
               /\ resp' = ReadResponse("getOrderById", resp'.caller, resp'.path,
                                       GetOrderById(<<>>, resp'.caller, resp'.path[1]))
               /\ UNCHANGED tables]_vars

C17_Witness ==
    /\ resp.op = "getOrderById"
    /\ resp.status = 404
    /\ ParseId(resp.path[1]) \in DOMAIN orders

\* C19: GET /history on the orders router is answered by getOrderHistory with
\* the caller's paid orders, newest first.
C19_HistoryRoute ==
    [][(resp'.op \in ReadOps /\ resp'.path = <<"history">>)
         => /\ resp'.op = "getOrderHistory"
            /\ resp'.status = 200
            /\ resp'.body = NewestFirst(orders,
                                {o \in DOMAIN orders : /\ orders[o].user_id = resp'.caller
                                                       /\ orders[o].status = "paid"})]_vars

\* C14: no user has more than one carts row, however the selects and inserts
\* of concurrent getOrCreateCart calls interleave.
C14_OneCartPerUser ==
    \A u \in Users : Cardinality(CartRowsOf(carts, u)) <= 1

OrderItemRows(ois) == {ois[i] : i \in DOMAIN ois}

\* C21: no step changes the total_amount of an existing order, and no step
\* alters an order_items row of an existing order or adds one to it; in
\* particular updateProduct and the cart handlers leave orders and
\* order_items as they are.
C21_OrderSnapshotFrozen ==
    [][/\ \A o \in DOMAIN orders :
             /\ o \in DOMAIN orders'
             /\ orders'[o].total_amount = orders[o].total_amount
             /\ \A r \in OrderItemRows(order_items') :
                   r.order_id = o => r \in OrderItemRows(order_items)
       /\ resp'.op \in {"updateProduct", "addToCart", "updateCartItem", "deleteCartItem"}
            => /\ UNCHANGED order_items
               /\ \A o \in DOMAIN orders : orders'[o] = orders[o]]_vars

\* the price of a product was changed after an order froze the old one
C21_Witness ==
    /\ resp.op = "updateProduct"
    /\ resp.status = 200
    /\ \E i \in DOMAIN order_items :
          /\ order_items[i].product_id \in DOMAIN products
          /\ order_items[i].price_at_order # products[order_items[i].product_id].price
          /\ orders[order_items[i].order_id].total_amount
                = order_items[i].quantity * order_items[i].price_at_order

\* C22: a validly signed charge.failed event for a pending order of the
\* resolved user sets the order failed, appends one payment_references row
\* and leaves cart_items, carts and products unchanged.
C22_ChargeFailed ==
    [][(resp'.op = "paystackWebhook" /\ resp'.prev = "pending" /\ lastEvent' = NoEvent) =>
       \A req \in SignedEvents :
          LET id == req.body.order_id IN
          (/\ req.body.event = "charge.failed"
           /\ id \in DOMAIN orders
           /\ UsersByEmail(req.body.email) = {orders[id].user_id}
           /\ orders[id].status = "pending"
           /\ PaystackWebhook(req))
            => /\ orders'[id].status = "failed"
               /\ \A o \in DOMAIN orders \ {id} : orders'[o] = orders[o]
               /\ Len(payment_references') = Len(payment_references) + 1
               /\ SubSeq(payment_references', 1, Len(payment_references))
                     = payment_references
               /\ payment_references'[Len(payment_references')].order_id = id
               /\ payment_references'[Len(payment_references')].user_id
                     = orders[id].user_id
               /\ UNCHANGED <<cart_items, carts, products>>]_vars

C22_Witness ==
    /\ resp.op = "paystackWebhook"
    /\ resp.status = 200
    /\ resp.prev = "pending"
    /\ lastEvent = NoEvent
    /\ \E o \in DOMAIN orders :
          /\ orders[o].status = "failed"
          /\ CartItemsOf(orders[o].user_id) # {}
          /\ CartTotalOf(orders[o].user_id) > 0

\* C27: every order holds at least one order_items row, and its total_amount
\* is the sum of quantity x price_at_order over the rows it holds.
C27_OrderTotalIsSum ==
    \A o \in DOMAIN orders :
        /\ ItemIndicesOf(order_items, o) # {}
        /\ orders[o].total_amount
              = SumOrderItems(order_items, ItemIndicesOf(order_items, o))

\* the number of cart lines of user u, and of rows of order id, that hold
\* quantity q of product p
CartLines(u, p, q) ==
    Cardinality({it \in CartItemsOf(u) : it.product_id = p /\ it.quantity = q})

OrderLines(id, p, q) ==
    Cardinality({i \in ItemIndicesOf(order_items, id) :
                    order_items[i].product_id = p /\ order_items[i].quantity = q})

\* C28: processing charge.success for a pending order removes from the
\* payer's cart no more lines than the order holds: of the lines with a given
\* product and quantity, those beyond the order's stay in the cart.
C28_ClearOnlyOrdered ==
    [][(/\ PaidFromPending
        /\ OrderWellFormed(lastEvent'.body.order_id)
        /\ \A it \in cart_items : it.quantity >= 1)
         => \A u \in UsersByEmail(lastEvent'.body.email) :
               \A it \in CartItemsOf(u) :
                  CartLines(u, it.product_id, it.quantity)'
                    >= CartLines(u, it.product_id, it.quantity)
                         - OrderLines(lastEvent'.body.order_id, it.product_id,
                                      it.quantity)]_vars

\* C29: every order's status is pending, paid or failed.
C29_StatusDomain ==
    \A o \in DOMAIN orders : orders[o].status \in Statuses

RECURSIVE SumTotalPrice(_)
\* the sum of total_price over the items of a getCart response
SumTotalPrice(items) ==
    IF items = {} THEN 0
    ELSE LET it == CHOOSE x \in items : TRUE
         IN  it.total_price + SumTotalPrice(items \ {it})

\* C30: the grand_total of a getCart response is the sum of total_price over
\* the items of the same response.
C30_GetCartTotal ==
    [][(resp'.op = "getCart" /\ resp'.status = 200)
         => resp'.grand_total = SumTotalPrice(resp'.body)]_vars

\* a payload that lacks one of the fields the gateway always sends
Incomplete(body) ==
    \/ body.event = ""
    \/ ~body.data
    \/ body.email = NoEmail
    \/ body.order_id = 0
    \/ body.amount = 0
    \/ ~body.details

\* C23: a validly signed webhook whose payload lacks one of event, data,
\* customer email, order_id, amount, reference, channel, currency, status
\* or paid_at is answered 400 and changes no order, cart, stock or
\* payment-reference state.
C23_IncompleteRejected ==
    [][resp'.op = "paystackWebhook" =>
       \A req \in HookRequests :
          (Incomplete(req.body) /\ PaystackWebhook(req))
            => /\ resp'.status = 400
               /\ UNCHANGED tables]_vars

\* C26: charge.success moves an order to paid only if the amount of the
\* event, in major units, is at least the order's total_amount (stated for
\* payloads that carry every field).
C26_PaidOnlyIfCovered ==
    [][(/\ PaidStep
        /\ ~Incomplete(lastEvent'.body)
        /\ lastEvent'.body.order_id \in DOMAIN orders
        /\ orders[lastEvent'.body.order_id].status # "paid"
        /\ orders'[lastEvent'.body.order_id].status = "paid")
         => AmountOf(lastEvent'.body)
              >= orders[lastEvent'.body.order_id].total_amount]_vars

\* C24: a mail is dispatched only by an invocation that has already answered
\* 200, and the settling of the sendMail promise, delivered or rejected,
\* changes neither the response nor orders, carts, cart_items, cart_totals,
\* products or payment_references.
C24_MailAfterResponse ==
    [][/\ emails' # emails
            => \E i \in Deliveries : webhooks[i].pc = "mail" /\ webhooks'[i].pc = "done"
       /\ \A i \in Deliveries :
             /\ (webhooks[i].pc # "mail" /\ webhooks'[i].pc = "mail")
                  => (resp'.op = "paystackWebhook" /\ resp'.status = 200)
             /\ (webhooks[i].pc = "mail" /\ webhooks'[i] # webhooks[i])
                  => (webhooks'[i].pc = "done" /\ UNCHANGED <<resp, tables>>)]_vars

\* an order was paid and answered 200, and the receipt was not delivered
C24_Witness ==
    /\ resp.op = "paystackWebhook"
    /\ resp.status = 200
    /\ emails = <<>>
    /\ \E i \in Deliveries :
          /\ webhooks[i].pc = "done"
          /\ webhooks[i].req.body.event = "charge.success"
          /\ webhooks[i].seen = "pending"
          /\ orders[webhooks[i].req.body.order_id].status = "paid"

\* C25: after the update to paid, every datastore call of the charge.success
\* branch is followed by the next one whether it succeeded or failed, up to
\* the 200 answer, and none of them writes orders.
C25_BestEffortSteps ==
    [][/\ \A i \in Deliveries :
          LET w == webhooks[i]
              v == webhooks'[i]
          IN  (w.req.body.event = "charge.success" /\ v # w)
                => /\ w.pc = "clearCart" => v.pc = "resetTotal"
                   /\ w.pc = "resetTotal" => v.pc = "insertReference"
                   /\ w.pc = "insertReference" => v.pc = "selectItems"
                   /\ w.pc = "selectItems" => v.pc = "decrement"
                   /\ (w.pc = "decrement" /\ w.items # <<>>)
                        => (v.pc = "decrement" /\ v.items = Tail(w.items))
                   /\ (w.pc = "decrement" /\ w.items = <<>>)
                        => (v.pc = "mail" /\ resp'.status = 200)
                   /\ w.pc \in {"selectCart", "clearCart", "resetTotal", "insertReference",
                                 "selectItems", "decrement"}
                        => UNCHANGED orders
       /\ \A o \in DOMAIN orders :
             orders[o].status = "paid" => orders'[o].status # "pending"]_vars

\* the insert of the payment reference failed; the order stayed paid, the
\* stock decrement after it was applied and the event was answered 200
C25_Witness ==
    /\ payment_references = <<>>
    /\ \E i \in Deliveries :
          /\ webhooks[i].pc \in {"mail", "done"}
          /\ webhooks[i].req.body.event = "charge.success"
          /\ webhooks[i].seen = "pending"
          /\ webhooks[i].cart_id # 0
          /\ orders[webhooks[i].req.body.order_id].status = "paid"
          /\ \E p \in DOMAIN products : products[p].stock_count < 1

====
